---- MODULE Spec2Model ----
(***************************************************************************)
(* MEF-Analyzer: the POST /api/comparar handler of src/server.ts, its      *)
(* scraper (scrapeMefData) and the comparison it computes.                 *)
(*                                                                         *)
(* Strings the code inspects character by character (the url, the cell    *)
(* texts) are sequences of one-character strings.  Amounts are finite      *)
(* integers: the fractional part of a parsed amount, and the texts that    *)
(* parseFloat reads as Infinity, are not modelled.  Labels are texts that  *)
(* do not name a member of Object.prototype ("constructor", "__proto__",  *)
(* ...), for which data[label] on a plain object also consults the         *)
(* prototype.                                                              *)
(***************************************************************************)
EXTENDS Integers, Sequences, FiniteSets, TLC

VARIABLES
    pc,           \* position of the request handler
    body,         \* req.body of the request being handled
    yearActual,   \* server.ts:77
    yearAnterior, \* server.ts:78
    urlAnterior,  \* server.ts:79
    pipe,         \* the two promises handed to Promise.all (server.ts:82-83)
    join,         \* the promise returned by Promise.all (server.ts:81)
    fetchLog,     \* every axios.get issued, in order (server.ts:23)
    settleOrder,  \* the pipelines in the order their promises settled
    responses,    \* every response sent on res, in order
    dataActual,   \* server.ts:81
    dataAnterior, \* server.ts:81
    result,       \* server.ts:88-113
    html,         \* the decoded page given to the parser (server.ts:24)
    htmlAnterior, \* the decoded page of the prior year (server.ts:24)
    scraped       \* what the parsing part of scrapeMefData produced

vars == <<pc, body, yearActual, yearAnterior, urlAnterior, pipe, join, fetchLog,
          settleOrder, responses, dataActual, dataAnterior, result, html,
          htmlAnterior, scraped>>

handlerVars == <<pc, body, yearActual, yearAnterior, urlAnterior, pipe, join,
                 fetchLog, settleOrder, responses>>

differVars == <<dataActual, dataAnterior, result>>

parserVars == <<html, htmlAnterior, scraped>>

-----------------------------------------------------------------------------
(* Bounds *)

MaxRows == 3

MaxKeys == 2

MaxCompareRows == 2

-----------------------------------------------------------------------------
(* Characters and numbers *)

Digits == {"0", "1", "2", "3", "4", "5", "6", "7", "8", "9"}

DigitVal(c) ==
    CASE c = "0" -> 0 [] c = "1" -> 1 [] c = "2" -> 2 [] c = "3" -> 3
      [] c = "4" -> 4 [] c = "5" -> 5 [] c = "6" -> 6 [] c = "7" -> 7
      [] c = "8" -> 8 [] c = "9" -> 9

DigitChar(n) ==
    CASE n = 0 -> "0" [] n = 1 -> "1" [] n = 2 -> "2" [] n = 3 -> "3"
      [] n = 4 -> "4" [] n = 5 -> "5" [] n = 6 -> "6" [] n = 7 -> "7"
      [] n = 8 -> "8" [] n = 9 -> "9"

Abs(n) == IF n < 0 THEN -n ELSE n

RECURSIVE DigitsValue(_)
\* the number a sequence of decimal digits denotes
DigitsValue(s) ==
    IF s = <<>> THEN 0
    ELSE 10 * DigitsValue(SubSeq(s, 1, Len(s) - 1)) + DigitVal(s[Len(s)])

RECURSIVE NatToString(_)
NatToString(n) ==
    IF n < 10 THEN <<DigitChar(n)>>
    ELSE NatToString(n \div 10) \o <<DigitChar(n % 10)>>

\* `${n}` for an integer n
NumberToString(n) == IF n < 0 THEN <<"-">> \o NatToString(-n) ELSE NatToString(n)

\* the longest prefix of s made of digits
RECURSIVE DigitPrefix(_)
DigitPrefix(s) ==
    IF s = <<>> \/ Head(s) \notin Digits THEN <<>>
    ELSE <<Head(s)>> \o DigitPrefix(Tail(s))

-----------------------------------------------------------------------------
(* YearResolver: server.ts:72-79 *)

IsYearAt(url, i) ==
    /\ i + 5 <= Len(url)
    /\ url[i] = "y"
    /\ url[i + 1] = "="
    /\ \A k \in 2..5 : url[i + k] \in Digits

\* a regular expression that takes any run of digits after "y="
YearMatch_anyDigits(url) ==
    LET at(i) == /\ i + 2 <= Len(url)
                 /\ url[i] = "y"
                 /\ url[i + 1] = "="
                 /\ url[i + 2] \in Digits
        hits == {i \in 1..Len(url) : at(i)}
    IN  IF hits = {} THEN [index |-> 0, group |-> <<>>]
        ELSE LET i == CHOOSE j \in hits : \A k \in hits : j <= k
             IN  [index |-> i, group |-> DigitPrefix(SubSeq(url, i + 2, Len(url)))]

\* url.match(/y=(\d{4})/): the leftmost match and its group, index 0 for null
YearMatch(url) ==
    LET hits == {i \in 1..Len(url) : IsYearAt(url, i)}
    IN  IF hits = {} THEN [index |-> 0, group |-> <<>>]
        ELSE LET i == CHOOSE j \in hits : \A k \in hits : j <= k
             IN  [index |-> i, group |-> SubSeq(url, i + 2, i + 5)]

\* parseInt(s, 10) of a string of digits
ParseInt(s) == DigitsValue(s)

\* a replacement of the rightmost match
ReplaceYear_last(url, replacement) ==
    LET hits == {i \in 1..Len(url) : IsYearAt(url, i)}
    IN  IF hits = {} THEN url
        ELSE LET i == CHOOSE j \in hits : \A k \in hits : k <= j
             IN  SubSeq(url, 1, i - 1) \o replacement \o SubSeq(url, i + 6, Len(url))

\* url.replace(/y=\d{4}/, replacement): only the leftmost match is replaced
ReplaceYear(url, replacement) ==
    LET hits == {i \in 1..Len(url) : IsYearAt(url, i)}
    IN  IF hits = {} THEN url
        ELSE LET i == CHOOSE j \in hits : \A k \in hits : j <= k
             IN  SubSeq(url, 1, i - 1) \o replacement \o SubSeq(url, i + 6, Len(url))

-----------------------------------------------------------------------------
(* Error values *)

\* new Error(text): neither .response nor .request
PlainError(msg) == [message |-> msg, response |-> 0, request |-> FALSE]

MsgNoTable ==
    [text |-> "No se encontró la tabla de datos en la URL proporcionada. Verifique que el enlace sea de Consulta Amigable."]

MsgNoData ==
    [text |-> "La tabla se encontró pero no contiene datos numéricos válidos en las columnas esperadas."]

MsgStatus(status) ==
    [text |-> "Error al acceder a la URL: El servidor respondió con estado ${status}.",
     status |-> status]

MsgNetwork == [text |-> "Error de red: No se pudo conectar a la URL proporcionada."]

\* error.message.includes('No se encontró'), over the messages of the model
IncludesNoSeEncontro(msg) == msg = MsgNoTable

-----------------------------------------------------------------------------
(* LabelNormalizer and cell texts: server.ts:17-19, 38-40 *)

CombiningMarks == {"U+0301", "U+0303"}

\* canonical decomposition of one character
NFDChar(c) ==
    CASE c = "á" -> <<"a", "U+0301">>
      [] c = "ñ" -> <<"n", "U+0303">>
      [] OTHER -> <<c>>

RECURSIVE NFD(_)
NFD(s) == IF s = <<>> THEN <<>> ELSE NFDChar(Head(s)) \o NFD(Tail(s))

removeAccents(str) == SelectSeq(NFD(str), LAMBDA c : c \notin CombiningMarks)

RECURSIVE TrimStart(_)
TrimStart(s) == IF s # <<>> /\ Head(s) = " " THEN TrimStart(Tail(s)) ELSE s

RECURSIVE TrimEnd(_)
TrimEnd(s) ==
    IF s # <<>> /\ s[Len(s)] = " " THEN TrimEnd(SubSeq(s, 1, Len(s) - 1)) ELSE s

Trim(s) == TrimEnd(TrimStart(s))

\* .replace(/,/g, '')
StripCommas(s) == SelectSeq(s, LAMBDA c : c # ",")

NaN == [nan |-> TRUE, val |-> 0]

\* parseFloat over texts with no fraction and no exponent: leading blanks, an
\* optional sign, then the longest run of digits; NaN when there is no digit
parseFloat(s) ==
    LET t == TrimStart(s)
        signed == t # <<>> /\ Head(t) \in {"-", "+"}
        u == IF signed THEN Tail(t) ELSE t
        d == DigitPrefix(u)
    IN  IF d = <<>> THEN NaN
        ELSE [nan |-> FALSE,
              val |-> IF signed /\ Head(t) = "-" THEN -DigitsValue(d) ELSE DigitsValue(d)]

-----------------------------------------------------------------------------
(* YearlyDataset: a Record<string, number>, its keys in insertion order *)

Keys(data) == [i \in 1..Len(data) |-> data[i].concepto]

\* a before b in the order of the digits, for texts of the same length
DigitsBefore(a, b) ==
    \E i \in 1..Len(a) :
        /\ DigitVal(a[i]) < DigitVal(b[i])
        /\ \A j \in 1..(i - 1) : a[j] = b[j]

\* 2^32 - 2, the largest array index
MaxArrayIndex == <<"4", "2", "9", "4", "9", "6", "7", "2", "9", "4">>

\* a property key that is an array index: the canonical decimal text of an
\* integer from 0 to 2^32 - 2
IsArrayIndex(k) ==
    /\ k # <<>>
    /\ \A i \in 1..Len(k) : k[i] \in Digits
    /\ Len(k) > 1 => k[1] # "0"
    /\ \/ Len(k) < Len(MaxArrayIndex)
       \/ Len(k) = Len(MaxArrayIndex) /\ (k = MaxArrayIndex \/ DigitsBefore(k, MaxArrayIndex))

\* the numeric order of two array indices
IndexLess(a, b) == Len(a) < Len(b) \/ (Len(a) = Len(b) /\ DigitsBefore(a, b))

HasKey(data, k) == \E i \in 1..Len(data) : data[i].concepto = k

\* data[k] for a key the object has
Lookup(data, k) == data[CHOOSE i \in 1..Len(data) : data[i].concepto = k].monto

\* an assignment that keeps the value a key already has
Assign_keepFirst(data, k, v) ==
    IF HasKey(data, k) THEN data ELSE Append(data, [concepto |-> k, monto |-> v])

\* an assignment that keeps every key in insertion order
Assign_insertionOrder(data, k, v) ==
    IF HasKey(data, k)
    THEN [i \in 1..Len(data) |->
            IF data[i].concepto = k THEN [concepto |-> k, monto |-> v] ELSE data[i]]
    ELSE Append(data, [concepto |-> k, monto |-> v])

\* data[k] = v: an existing key keeps its place and takes the new value; a new
\* key that is an array index goes among the array indices in ascending order,
\* ahead of every other key, and any other new key goes last (the order in
\* which Object.keys lists the own keys of an object)
Assign(data, k, v) ==
    IF HasKey(data, k)
    THEN [i \in 1..Len(data) |->
            IF data[i].concepto = k THEN [concepto |-> k, monto |-> v] ELSE data[i]]
    ELSE IF IsArrayIndex(k)
    THEN LET after == {i \in 1..Len(data) :
                          ~IsArrayIndex(data[i].concepto) \/ IndexLess(k, data[i].concepto)}
             at == IF after = {} THEN Len(data) + 1
                   ELSE CHOOSE i \in after : \A j \in after : i <= j
         IN  SubSeq(data, 1, at - 1) \o <<[concepto |-> k, monto |-> v]>>
               \o SubSeq(data, at, Len(data))
    ELSE Append(data, [concepto |-> k, monto |-> v])

-----------------------------------------------------------------------------
(* TableParser: server.ts:25-53.  A page is its sequence of tables, a table *)
(* its class and its rows (tr), a row its number of td cells and the text   *)
(* of the cells at index 1 and 7.                                           *)

\* a callback that counts a row before its amount is known to be a number
EachRow_countsUnparsed(acc, row) ==
    IF row.ncols >= 8
    THEN LET conceptoRaw == Trim(row.col1)
             montoRaw == StripCommas(Trim(row.col7))
             monto == parseFloat(montoRaw)
         IN  IF ~monto.nan
             THEN [data |-> Assign(acc.data, removeAccents(conceptoRaw), monto.val),
                   hasData |-> TRUE]
             ELSE [acc EXCEPT !.hasData = TRUE]
    ELSE acc

\* the callback of table.find("tr").each: server.ts:35-47
EachRow(acc, row) ==
    IF row.ncols >= 8
    THEN LET conceptoRaw == Trim(row.col1)
             montoRaw == StripCommas(Trim(row.col7))
             monto == parseFloat(montoRaw)
         IN  IF ~monto.nan
             THEN [data |-> Assign(acc.data, removeAccents(conceptoRaw), monto.val),
                   hasData |-> TRUE]
             ELSE acc
    ELSE acc

RECURSIVE EachRows(_, _)
\* the rows in document order
EachRows(acc, rows) ==
    IF rows = <<>> THEN acc ELSE EachRows(EachRow(acc, Head(rows)), Tail(rows))

\* $("table.Data").first(): the index of the table, 0 when there is none
FirstDataTable(page) ==
    LET hits == {i \in 1..Len(page) : page[i].class = "Data"}
    IN  IF hits = {} THEN 0 ELSE CHOOSE i \in hits : \A j \in hits : i <= j

\* the body of the try block after the page is decoded
ParsePage(page) ==
    LET t == FirstDataTable(page)
    IN  IF t = 0
        THEN [done |-> FALSE, ok |-> FALSE, error |-> PlainError(MsgNoTable), data |-> <<>>]
        ELSE LET acc == EachRows([data |-> <<>>, hasData |-> FALSE], page[t].rows)
             IN  IF ~acc.hasData
                 THEN [done |-> FALSE, ok |-> FALSE, error |-> PlainError(MsgNoData),
                       data |-> <<>>]
                 ELSE [done |-> FALSE, ok |-> TRUE, error |-> PlainError([text |-> ""]),
                       data |-> acc.data]

-----------------------------------------------------------------------------
(* Fetcher and scrapeMefData as a whole: server.ts:21-63 *)

\* a catch block that looks at error.request before error.response
ScrapeCatch_requestFirst(error) ==
    IF error.request /\ ~IncludesNoSeEncontro(error.message) THEN PlainError(MsgNetwork)
    ELSE IF error.response # 0 THEN PlainError(MsgStatus(error.response))
    ELSE error

\* the catch block: server.ts:54-62
ScrapeCatch(error) ==
    IF error.response # 0 THEN PlainError(MsgStatus(error.response))
    ELSE IF error.request /\ ~IncludesNoSeEncontro(error.message)
         THEN PlainError(MsgNetwork)
         ELSE error

\* how the promise of scrapeMefData(url) settles, given what axios.get gave
scrapeMefData(outcome) ==
    IF outcome.kind = "response"
    THEN LET r == ParsePage(outcome.page)
         IN  IF r.ok THEN [st |-> "fulfilled", value |-> r.data, reason |-> [text |-> ""]]
             ELSE [st |-> "rejected", value |-> <<>>, reason |-> ScrapeCatch(r.error).message]
    ELSE [st |-> "rejected", value |-> <<>>, reason |-> ScrapeCatch(outcome.error).message]

-----------------------------------------------------------------------------
(* Differ: server.ts:86-113 *)

Million == 1000000

RECURSIVE SetOf(_)
\* new Set(array) then Array.from: the first occurrence of each element, in order
SetOf(seq) ==
    IF seq = <<>> THEN <<>>
    ELSE LET init == SetOf(SubSeq(seq, 1, Len(seq) - 1))
             x == seq[Len(seq)]
         IN  IF \E i \in 1..Len(init) : init[i] = x THEN init ELSE Append(init, x)

\* a spread of both key lists with no Set around it
Conceptos_concat(actual, anterior) == Keys(actual) \o Keys(anterior)

\* server.ts:86
Conceptos(actual, anterior) == SetOf(Keys(actual) \o Keys(anterior))

\* data[concepto] || 0
OrZero(data, concepto) ==
    IF HasKey(data, concepto) /\ Lookup(data, concepto) # 0
    THEN Lookup(data, concepto)
    ELSE 0

\* a scaling that floors
ScaleToMillions_floor(raw) == raw \div Million

\* Math.trunc(raw / 1000000): server.ts:93-94
ScaleToMillions(raw) ==
    IF raw >= 0 THEN raw \div Million ELSE -((-raw) \div Million)

Tenths(n) == [kind |-> "finite", tenths |-> n]

\* Number((((a / b) * 100) - 100).toFixed(1)) in tenths, taken in exact
\* arithmetic: the nearest tenth, a tie away from zero; not finite for b = 0
Percentage(a, b) ==
    IF b = 0
    THEN [kind |-> IF a > 0 THEN "Infinity" ELSE IF a < 0 THEN "-Infinity" ELSE "NaN",
          tenths |-> 0]
    ELSE LET n == 1000 * (a - b)
             q == (2 * Abs(n) + Abs(b)) \div (2 * Abs(b))
         IN  Tenths(IF (n < 0) = (b < 0) THEN q ELSE -q)

\* a row whose percentage is guarded by the raw prior amount
MakeRow_rawGuard(concepto, actual, anterior) ==
    LET montoAnteriorRaw == OrZero(anterior, concepto)
        montoActualRaw == OrZero(actual, concepto)
        montoAnterior == ScaleToMillions(montoAnteriorRaw)
        montoActual == ScaleToMillions(montoActualRaw)
    IN  [concepto |-> concepto,
         montoAnterior |-> montoAnterior,
         montoActual |-> montoActual,
         variacionS |-> montoActual - montoAnterior,
         variacionPorcentaje |->
            IF montoAnteriorRaw # 0 THEN Percentage(montoActual, montoAnterior)
            ELSE Tenths(0)]

\* the callback of map: server.ts:88-110
MakeRow(concepto, actual, anterior) ==
    LET montoAnteriorRaw == OrZero(anterior, concepto)
        montoActualRaw == OrZero(actual, concepto)
        montoAnterior == ScaleToMillions(montoAnteriorRaw)
        montoActual == ScaleToMillions(montoActualRaw)
    IN  [concepto |-> concepto,
         montoAnterior |-> montoAnterior,
         montoActual |-> montoActual,
         variacionS |-> montoActual - montoAnterior,
         variacionPorcentaje |->
            IF montoAnterior # 0 THEN Percentage(montoActual, montoAnterior)
            ELSE Tenths(0)]

\* a comparator that sorts ascending
Compare_ascending(a, b) == a.variacionS - b.variacionS

\* the comparator of result.sort: server.ts:113
Compare(a, b) == b.variacionS - a.variacionS

\* x put before the first element that the comparator orders after it
Insert(sorted, x) ==
    LET later == {i \in 1..Len(sorted) : Compare(sorted[i], x) > 0}
        at == IF later = {} THEN Len(sorted) + 1
              ELSE CHOOSE i \in later : \A j \in later : i <= j
    IN  SubSeq(sorted, 1, at - 1) \o <<x>> \o SubSeq(sorted, at, Len(sorted))

RECURSIVE Sort(_)
\* Array.prototype.sort: a stable sort by the comparator
Sort(rows) ==
    IF rows = <<>> THEN <<>>
    ELSE Insert(Sort(SubSeq(rows, 1, Len(rows) - 1)), rows[Len(rows)])

\* the rows before the sort: server.ts:86-110
Rows(actual, anterior) ==
    LET conceptos == Conceptos(actual, anterior)
    IN  [i \in 1..Len(conceptos) |-> MakeRow(conceptos[i], actual, anterior)]

\* server.ts:86-113
Differ(actual, anterior) == Sort(Rows(actual, anterior))

-----------------------------------------------------------------------------
(* Orchestrator: server.ts:65-125 *)

Pipelines == {"actual", "anterior"}

Undefined == [type |-> "undefined", chars |-> <<>>]

String(chars) == [type |-> "string", chars |-> chars]

\* a JSON value that is neither a string nor falsy
NonString == [type |-> "number", chars |-> <<>>]

\* !url
Falsy(url) == url.type = "undefined" \/ (url.type = "string" /\ url.chars = <<>>)

MsgUrlRequired == [text |-> "La URL es requerida."]

MsgNoYear ==
    [text |-> "La URL no contiene el parámetro de año 'y='. Asegúrese de copiar el enlace correcto."]

\* what calling .match on a value that has no such method throws
MsgTypeError == [text |-> "url.match is not a function"]

\* a wrapper that names the current year for both pipelines
CatchWrap_sameYear(p, yActual, yAnterior, message) ==
    [text |-> "Error en datos de ${year}: ${message}", year |-> yActual,
     message |-> message]

\* the .catch handlers of server.ts:82-83
CatchWrap(p, yActual, yAnterior, message) ==
    [text |-> "Error en datos de ${year}: ${message}",
     year |-> IF p = "actual" THEN yActual ELSE yAnterior,
     message |-> message]

\* a promise of server.ts:82-83: its state, the dataset it is fulfilled with, the
\* message e.message of the error scrapeMefData threw, the message it is
\* rejected with, and what axios.get gave to its call of scrapeMefData
Pending ==
    [st |-> "pending", value |-> <<>>, e |-> [text |-> ""], reason |-> [text |-> ""],
     got |-> [kind |-> "none", page |-> <<>>, error |-> PlainError([text |-> ""])]]

NotStarted == [Pending EXCEPT !.st = "idle"]

JoinPending == [st |-> "pending", reason |-> [text |-> ""]]

\* a join that resolves as soon as one promise is fulfilled
PromiseAll_any(prev, ps, p) ==
    IF prev.st # "pending" THEN prev
    ELSE IF ps[p].st = "rejected" THEN [st |-> "rejected", reason |-> ps[p].reason]
    ELSE [prev EXCEPT !.st = "resolved"]

\* a join that waits for every promise and reports the failures in array order
PromiseAll_inOrder(prev, ps, p) ==
    IF prev.st # "pending" THEN prev
    ELSE IF \E q \in Pipelines : ps[q].st = "pending" THEN prev
    ELSE IF ps["actual"].st = "rejected"
         THEN [st |-> "rejected", reason |-> ps["actual"].reason]
    ELSE IF ps["anterior"].st = "rejected"
         THEN [st |-> "rejected", reason |-> ps["anterior"].reason]
    ELSE [prev EXCEPT !.st = "resolved"]

\* Promise.all after promise p of ps has settled: server.ts:81-84
PromiseAll(prev, ps, p) ==
    IF prev.st # "pending" THEN prev
    ELSE IF ps[p].st = "rejected" THEN [st |-> "rejected", reason |-> ps[p].reason]
    ELSE IF \A q \in Pipelines : ps[q].st = "fulfilled"
         THEN [prev EXCEPT !.st = "resolved"]
    ELSE prev

Response(status, payload) == [status |-> status, body |-> payload]

ErrorBody(msg) == [error |-> msg]

-----------------------------------------------------------------------------
(* Inputs *)

\* request bodies: url absent, empty, not a string, and strings with and
\* without a year token
Urls ==
    { <<>>,
      <<"?", "x", "=", "1">>,
      <<"y", "=", "2", "0", "2">>,
      <<"y", "=", "2", "0", "x", "4">>,
      <<"Y", "=", "2", "0", "2", "4">>,
      <<"y", "2", "0", "2", "4">>,
      <<"y", "=", "2", "0", "2", "4">>,
      <<"y", "=", "2", "0", "2", "4", "5">>,
      <<"?", "y", "=", "2", "0", "2", "4", "&", "y", "=", "1", "9", "9", "9">>,
      <<"y", "=", "1", "&", "y", "=", "2", "0", "2", "4">>,
      <<"y", "=", "1", "0", "0", "0">>,
      <<"y", "=", "0", "0", "0", "0", "&", "y", "=", "2", "0", "2", "4">> }

Bodies == {[url |-> Undefined], [url |-> NonString]} \cup {[url |-> String(u)] : u \in Urls}

LabelTexts == { <<"a">>, <<"á", " ">>, <<"n">> }

AmountTexts ==
    { <<"2", ",", "9", "9", "9", ",", "9", "9", "9">>,
      <<" ", "-", "5", "0", "0", ",", "0", "0", "0">>,
      <<"n", "d">> }

\* a row with fewer than 8 cells has no cell at index 7
TableRows ==
    {[ncols |-> 7, col1 |-> l, col7 |-> <<>>] : l \in LabelTexts}
    \cup {[ncols |-> 8, col1 |-> l, col7 |-> m] : l \in LabelTexts, m \in AmountTexts}
    \cup {[ncols |-> 9, col1 |-> <<"n">>, col7 |-> <<"7">>]}

SeqsUpTo(S, n) == UNION {[1..k -> S] : k \in 0..n}

DataTables == [class : {"Data"}, rows : SeqsUpTo(TableRows, MaxRows)]

OtherTable ==
    [class |-> "other",
     rows |-> <<[ncols |-> 8, col1 |-> <<"a">>, col7 |-> <<"7">>]>>]

SecondDataTable ==
    [class |-> "Data",
     rows |-> <<[ncols |-> 8, col1 |-> <<"n">>, col7 |-> <<"5", "0", "0", "0", "0", "0", "0">>]>>]

\* pages of at most three tables, with and without a table of class Data
Pages ==
    {<<>>, <<OtherTable>>} \cup
    {l \o <<t>> \o r : l \in {<<>>, <<OtherTable>>}, t \in DataTables,
                       r \in {<<>>, <<SecondDataTable>>}}

\* the pages the remote answers a request with
SamplePages ==
    { <<>>,
      <<[class |-> "Data", rows |-> <<[ncols |-> 7, col1 |-> <<"a">>, col7 |-> <<>>]>>]>>,
      <<[class |-> "Data",
         rows |-> <<[ncols |-> 8, col1 |-> <<"a">>,
                     col7 |-> <<"2", ",", "9", "9", "9", ",", "9", "9", "9">>]>>]>>,
      <<[class |-> "Data",
         rows |-> <<[ncols |-> 8, col1 |-> <<"n">>,
                     col7 |-> <<"5", "0", "0", "0", "0", "0", "0">>],
                    [ncols |-> 8, col1 |-> <<"á", " ">>,
                     col7 |-> <<" ", "-", "5", "0", "0", ",", "0", "0", "0">>]>>]>> }

\* the errors axios.get rejects with: a response with a status outside 2xx, a
\* request that got no response, and an error raised before any request
AxiosErrors ==
    { [message |-> [text |-> "Request failed with status code 404"],
       response |-> 404, request |-> TRUE],
      [message |-> [text |-> "Request failed with status code 503"],
       response |-> 503, request |-> TRUE],
      [message |-> [text |-> "Network Error"], response |-> 0, request |-> TRUE],
      [message |-> [text |-> "Invalid URL"], response |-> 0, request |-> FALSE] }

NoPage == <<>>

NoError == PlainError([text |-> ""])

Outcomes ==
    {[kind |-> "response", page |-> pg, error |-> NoError] : pg \in SamplePages}
    \cup {[kind |-> "error", page |-> NoPage, error |-> e] : e \in AxiosErrors}

Labels == { <<"a">>, <<"n">>, <<"o">> }

Amounts == { 2999999, -2999999, -500000 }

\* the non-empty datasets of at most MaxKeys labels, in every insertion order
Datasets ==
    LET Entries == [concepto : Labels, monto : Amounts]
    IN  {d \in SeqsUpTo(Entries, MaxKeys) :
            /\ d # <<>>
            /\ \A i, j \in 1..Len(d) : i # j => d[i].concepto # d[j].concepto}

-----------------------------------------------------------------------------
(* The request handler *)

NoScrape == [done |-> FALSE, ok |-> FALSE, error |-> NoError, data |-> <<>>]

InitHandler ==
    /\ pc = "idle"
    /\ body = [url |-> Undefined]
    /\ yearActual = 0
    /\ yearAnterior = 0
    /\ urlAnterior = <<>>
    /\ pipe = [p \in Pipelines |-> NotStarted]
    /\ join = [JoinPending EXCEPT !.st = "idle"]
    /\ fetchLog = <<>>
    /\ settleOrder = <<>>
    /\ responses = <<>>

Init ==
    /\ InitHandler
    /\ dataActual = <<>>
    /\ dataAnterior = <<>>
    /\ result = <<>>
    /\ html = <<>>
    /\ htmlAnterior = <<>>
    /\ scraped = NoScrape

\* server.ts:65-84: a request arrives and the handler runs up to its await
HandleRequest(b) ==
    /\ pc = "idle"
    /\ body' = b
    /\ UNCHANGED <<settleOrder, differVars, parserVars>>
    /\ LET url == b.url
       IN  IF Falsy(url)
           THEN /\ responses' = Append(responses, Response(400, ErrorBody(MsgUrlRequired)))
                /\ pc' = "responded"
                /\ UNCHANGED <<yearActual, yearAnterior, urlAnterior, pipe, join, fetchLog>>
           ELSE IF url.type # "string"
           THEN /\ responses' = Append(responses, Response(500, ErrorBody(MsgTypeError)))
                /\ pc' = "responded"
                /\ UNCHANGED <<yearActual, yearAnterior, urlAnterior, pipe, join, fetchLog>>
           ELSE LET yearMatch == YearMatch(url.chars)
                IN  IF yearMatch.index = 0
                    THEN /\ responses' = Append(responses, Response(400, ErrorBody(MsgNoYear)))
                         /\ pc' = "responded"
                         /\ UNCHANGED <<yearActual, yearAnterior, urlAnterior, pipe, join,
                                        fetchLog>>
                    ELSE LET ya == ParseInt(yearMatch.group)
                             yn == ya - 1
                             ua == ReplaceYear(url.chars, <<"y", "=">> \o NumberToString(yn))
                         IN  /\ yearActual' = ya
                             /\ yearAnterior' = yn
                             /\ urlAnterior' = ua
                             /\ fetchLog' = fetchLog \o
                                    <<[pipeline |-> "actual", url |-> url.chars],
                                      [pipeline |-> "anterior", url |-> ua]>>
                             /\ pipe' = [p \in Pipelines |-> Pending]
                             /\ join' = JoinPending
                             /\ pc' = "awaiting"
                             /\ UNCHANGED responses

\* server.ts:86-119: the handler resumes with both datasets
Resume(values) ==
    LET rows == Differ(values["actual"], values["anterior"])
    IN  /\ dataActual' = values["actual"]
        /\ dataAnterior' = values["anterior"]
        /\ result' = rows
        /\ responses' = Append(responses,
              Response(200, [yearActual |-> yearActual, yearAnterior |-> yearAnterior,
                             data |-> rows]))
        /\ pc' = "responded"

\* a catch block that logs the error and sends nothing
Catch_logOnly(reason) ==
    /\ pc' = "responded"
    /\ UNCHANGED <<responses, differVars>>

\* server.ts:121-124: the catch block of the handler
Catch(reason) ==
    /\ responses' = Append(responses, Response(500, ErrorBody(reason)))
    /\ pc' = "responded"
    /\ UNCHANGED differVars

\* server.ts:21-63, 82-84: axios.get of pipeline p settles; scrapeMefData runs to
\* its end, the .catch wrapper and Promise.all react, and the handler resumes
\* in the same turn when Promise.all settles
Settle(p, outcome) ==
    /\ pipe[p].st = "pending"
    /\ LET s == scrapeMefData(outcome)
           settled == IF s.st = "fulfilled"
                      THEN [Pending EXCEPT !.st = "fulfilled", !.value = s.value,
                              !.got = outcome]
                      ELSE [Pending EXCEPT !.st = "rejected", !.e = s.reason,
                              !.got = outcome,
                              !.reason = CatchWrap(p, yearActual, yearAnterior, s.reason)]
           ps == [pipe EXCEPT ![p] = settled]
           j == PromiseAll(join, ps, p)
       IN  /\ pipe' = ps
           /\ join' = j
           /\ settleOrder' = Append(settleOrder, p)
           /\ IF join.st = "pending" /\ j.st = "resolved"
              THEN Resume([q \in Pipelines |-> ps[q].value])
              ELSE IF join.st = "pending" /\ j.st = "rejected"
              THEN Catch(j.reason)
              ELSE UNCHANGED <<pc, responses, differVars>>
    /\ UNCHANGED <<body, yearActual, yearAnterior, urlAnterior, fetchLog, parserVars>>

Next ==
    \/ \E b \in Bodies : HandleRequest(b)
    \/ \E p \in Pipelines, o \in Outcomes : Settle(p, o)

Spec == Init /\ [][Next]_vars

-----------------------------------------------------------------------------
(* The parser alone, on every page of the bounds *)

InitParser ==
    /\ InitHandler
    /\ dataActual = <<>>
    /\ dataAnterior = <<>>
    /\ result = <<>>
    /\ html \in Pages
    /\ htmlAnterior = <<>>
    /\ scraped = NoScrape

\* server.ts:25-53 on the decoded page
RunParser ==
    /\ ~scraped.done
    /\ scraped' = [ParsePage(html) EXCEPT !.done = TRUE]
    /\ UNCHANGED <<handlerVars, differVars, html, htmlAnterior>>

NextParser == RunParser

SpecParser == InitParser /\ [][NextParser]_vars

-----------------------------------------------------------------------------
(* The Differ alone, on every pair of datasets of the bounds *)

InitDiffer ==
    /\ InitHandler
    /\ dataActual \in Datasets
    /\ dataAnterior \in Datasets
    /\ result = <<>>
    /\ html = <<>>
    /\ htmlAnterior = <<>>
    /\ scraped = NoScrape

\* server.ts:86-113 on the two datasets
RunDiffer ==
    /\ result = <<>>
    /\ result' = Differ(dataActual, dataAnterior)
    /\ UNCHANGED <<handlerVars, parserVars, dataActual, dataAnterior>>

NextDiffer == RunDiffer

SpecDiffer == InitDiffer /\ [][NextDiffer]_vars

-----------------------------------------------------------------------------
(* Parser and Differ together, on every pair of pages of the bounds *)

\* rows of 8 cells whose labels include array indices
CompareRows ==
    {[ncols |-> 8, col1 |-> l, col7 |-> m] :
        l \in {<<"b">>, <<"7">>, <<"1", "0">>},
        m \in {<<"2", ",", "9", "9", "9", ",", "9", "9", "9">>,
               <<"5", "0", "0", "0", "0", "0", "0">>}}

ComparePages ==
    {<<[class |-> "Data", rows |-> r]>> : r \in SeqsUpTo(CompareRows, MaxCompareRows)}

InitCompare ==
    /\ InitHandler
    /\ dataActual = <<>>
    /\ dataAnterior = <<>>
    /\ result = <<>>
    /\ html \in ComparePages
    /\ htmlAnterior \in ComparePages
    /\ scraped = NoScrape

\* server.ts:25-53 on both pages, then server.ts:86-113 on the two datasets
RunCompare ==
    /\ result = <<>>
    /\ ParsePage(html).ok
    /\ ParsePage(htmlAnterior).ok
    /\ dataActual' = ParsePage(html).data
    /\ dataAnterior' = ParsePage(htmlAnterior).data
    /\ result' = Differ(ParsePage(html).data, ParsePage(htmlAnterior).data)
    /\ UNCHANGED <<handlerVars, parserVars>>

NextCompare == RunCompare

SpecCompare == InitCompare /\ [][NextCompare]_vars

-----------------------------------------------------------------------------
(* Properties of the request handler *)

Sent(status) == \E i \in 1..Len(responses) : responses[i].status = status

\* C1: the Differ step and the 200 response happen only once both the
\* current-year and the prior-year pipeline have completed successfully
C1_DifferAfterBothPipelines ==
    (Sent(200) \/ result # <<>> \/ dataActual # <<>> \/ dataAnterior # <<>>)
        => /\ \A p \in Pipelines : pipe[p].st = "fulfilled"
           /\ dataActual = pipe["actual"].value
           /\ dataAnterior = pipe["anterior"].value

C1_Witness ==
    /\ Sent(200)
    /\ result # <<>>
    /\ settleOrder = <<"anterior", "actual">>

\* the year the claim names for a pipeline
YearNamed(p) == IF p = "actual" THEN yearActual ELSE yearAnterior

\* C2: when a pipeline fails the only response is a 500 whose error is
\* "Error en datos de <year>: <message>" for the year and the own message of a
\* pipeline that failed, and no comparison is produced
C2_FailureAborts ==
    (\E p \in Pipelines : pipe[p].st = "rejected")
        => /\ Len(responses) = 1
           /\ responses[1].status = 500
           /\ \E p \in Pipelines :
                /\ pipe[p].st = "rejected"
                /\ responses[1].body =
                     [error |-> [text |-> "Error en datos de ${year}: ${message}",
                                 year |-> YearNamed(p), message |-> pipe[p].e]]
           /\ result = <<>>
           /\ ~Sent(200)

C2_Witness ==
    /\ pipe["actual"].st = "fulfilled"
    /\ pipe["anterior"].st = "rejected"
    /\ pipe["anterior"].e = MsgNoData
    /\ settleOrder = <<"actual", "anterior">>
    /\ Sent(500)

\* C3: when both pipelines fail, the error reported is that of the pipeline
\* that failed first; the later failure still happens and is not reported
C3_FirstFailureReported ==
    (\A p \in Pipelines : pipe[p].st = "rejected")
        => /\ Len(settleOrder) = 2
           /\ responses = <<Response(500, ErrorBody(pipe[settleOrder[1]].reason))>>
           /\ responses[1].body.error # pipe[settleOrder[2]].reason

C3_Witness ==
    /\ \A p \in Pipelines : pipe[p].st = "rejected"
    /\ settleOrder = <<"anterior", "actual">>
    /\ responses[1].body.error.year = yearAnterior

\* "y=" followed by 4 digits somewhere in the text
HasYearToken(chars) ==
    \E i \in 1..Len(chars) :
        /\ i + 5 <= Len(chars)
        /\ SubSeq(chars, i, i + 1) = <<"y", "=">>
        /\ \A k \in (i + 2)..(i + 5) : chars[k] \in Digits

\* C4: a request with no url, or with a url that has no "y=" followed by 4
\* digits, is answered 400 with an error message and no fetch is started
C4_InvalidUrlAnswered400 ==
    (pc # "idle" /\ (Falsy(body.url)
                       \/ ~(body.url.type = "string" /\ HasYearToken(body.url.chars))))
        => /\ Len(responses) = 1
           /\ responses[1].status = 400
           /\ responses[1].body.error \in {MsgUrlRequired, MsgNoYear}
           /\ fetchLog = <<>>
           /\ \A p \in Pipelines : pipe[p].st = "idle"

\* the position of the leftmost "y=" followed by 4 digits
FirstToken(chars) ==
    LET at(i) == /\ i + 5 <= Len(chars)
                 /\ SubSeq(chars, i, i + 1) = <<"y", "=">>
                 /\ \A k \in (i + 2)..(i + 5) : chars[k] \in Digits
    IN  CHOOSE i \in 1..Len(chars) : at(i) /\ \A j \in 1..(i - 1) : ~at(j)

\* C11: for a url with a year token, yearActual is the 4-digit number after the
\* first match, yearAnterior is one less, urlAnterior is url with only that
\* first occurrence replaced by "y=<yearAnterior>", and the two pipelines fetch
\* url and urlAnterior
C11_YearResolved ==
    (pc # "idle" /\ body.url.type = "string" /\ HasYearToken(body.url.chars))
        => LET url == body.url.chars
               i == FirstToken(url)
               year == 1000 * DigitVal(url[i + 2]) + 100 * DigitVal(url[i + 3])
                         + 10 * DigitVal(url[i + 4]) + DigitVal(url[i + 5])
               shown == NumberToString(year - 1)
           IN  /\ yearActual = year
               /\ yearAnterior = yearActual - 1
               /\ Len(urlAnterior) = Len(url) - 4 + Len(shown)
               /\ SubSeq(urlAnterior, 1, i + 1) = SubSeq(url, 1, i + 1)
               /\ SubSeq(urlAnterior, i + 2, i + 1 + Len(shown)) = shown
               /\ SubSeq(urlAnterior, i + 2 + Len(shown), Len(urlAnterior))
                    = SubSeq(url, i + 6, Len(url))
               /\ fetchLog = <<[pipeline |-> "actual", url |-> url],
                               [pipeline |-> "anterior", url |-> urlAnterior]>>

C11_Witness ==
    /\ body.url = String(<<"?", "y", "=", "2", "0", "2", "4", "&", "y", "=", "1", "9", "9", "9">>)
    /\ yearActual = 2024
    /\ urlAnterior = <<"?", "y", "=", "2", "0", "2", "3", "&", "y", "=", "1", "9", "9", "9">>
    /\ Len(fetchLog) = 2
    /\ Len(settleOrder) = 2

-----------------------------------------------------------------------------
(* Properties of the Differ *)

KeySet(data) == {data[i].concepto : i \in 1..Len(data)}

\* the amount a dataset holds for a label, 0 for a label it lacks
RawAmount(data, k) ==
    IF k \in KeySet(data)
    THEN (CHOOSE e \in {data[i] : i \in 1..Len(data)} : e.concepto = k).monto
    ELSE 0

C7_ZeroPriorZeroPercent ==
    \A i \in 1..Len(result) :
        result[i].montoAnterior = 0 => result[i].variacionPorcentaje = Tenths(0)

C7_Witness ==
    \E i \in 1..Len(result) :
        /\ result[i].montoAnterior = 0
        /\ RawAmount(dataAnterior, result[i].concepto) = -500000
        /\ result[i].montoActual = 2

Sign(n) == IF n < 0 THEN -1 ELSE IF n > 0 THEN 1 ELSE 0

TruncatedMillions(a, s) ==
    /\ Abs(s) * 1000000 <= Abs(a)
    /\ Abs(a) < (Abs(s) + 1) * 1000000
    /\ s = 0 \/ Sign(s) = Sign(a)

\* C8: montoAnterior and montoActual are the raw amounts divided by 1,000,000
\* and truncated toward zero: 2,999,999 -> 2, -2,999,999 -> -2, -500,000 -> 0
C8_ScaledByTruncation ==
    \A i \in 1..Len(result) :
        LET a == RawAmount(dataActual, result[i].concepto)
            b == RawAmount(dataAnterior, result[i].concepto)
        IN  /\ TruncatedMillions(a, result[i].montoActual)
            /\ TruncatedMillions(b, result[i].montoAnterior)
            /\ a = 2999999 => result[i].montoActual = 2
            /\ a = -2999999 => result[i].montoActual = -2
            /\ b = -500000 => result[i].montoAnterior = 0

C8_Witness ==
    \E i \in 1..Len(result) :
        /\ RawAmount(dataActual, result[i].concepto) = -2999999
        /\ result[i].montoActual = -2
        /\ RawAmount(dataAnterior, result[i].concepto) = -500000
        /\ result[i].montoAnterior = 0

-----------------------------------------------------------------------------
(* Properties of the parser *)

\* the rows of the first table of class Data
FirstDataRows(page) ==
    LET hits == {i \in 1..Len(page) : page[i].class = "Data"}
    IN  page[CHOOSE i \in hits : \A j \in hits : i <= j].rows

HasDataTable(page) == \E i \in 1..Len(page) : page[i].class = "Data"

RowAmount(row) == parseFloat(StripCommas(Trim(row.col7)))

RowLabel(row) == removeAccents(Trim(row.col1))

\* at least 8 cells and an amount that parses as a number
Qualifies(row) == row.ncols >= 8 /\ ~RowAmount(row).nan

C10_ParseErrors ==
    scraped.done
        => /\ (~scraped.ok /\ scraped.error.message = MsgNoTable) <=> ~HasDataTable(html)
           /\ HasDataTable(html)
                => /\ (~scraped.ok /\ scraped.error.message = MsgNoData)
                        <=> (\A i \in 1..Len(FirstDataRows(html)) :
                                ~Qualifies(FirstDataRows(html)[i]))
                   /\ scraped.ok
                        <=> (\E i \in 1..Len(FirstDataRows(html)) :
                                Qualifies(FirstDataRows(html)[i]))
           /\ scraped.ok => scraped.data # <<>>
           /\ ~scraped.ok => scraped.error.message \in {MsgNoTable, MsgNoData}

C10_Witness ==
    /\ scraped.done
    /\ ~scraped.ok
    /\ scraped.error.message = MsgNoData
    /\ Len(html) = 3
    /\ html[2].rows = <<[ncols |-> 7, col1 |-> <<"n">>, col7 |-> <<>>],
                        [ncols |-> 8, col1 |-> <<"a">>, col7 |-> <<"n", "d">>]>>

-----------------------------------------------------------------------------
(* Properties of parser and Differ together *)

RECURSIVE FirstOccurrences(_)
\* the elements of a sequence in the order of their first occurrence
FirstOccurrences(seq) ==
    IF seq = <<>> THEN <<>>
    ELSE LET init == FirstOccurrences(SubSeq(seq, 1, Len(seq) - 1))
         IN  IF \E i \in 1..Len(init) : init[i] = seq[Len(seq)] THEN init
             ELSE Append(init, seq[Len(seq)])

\* the labels of a page in the order the parser inserted them
InsertionOrder(page) ==
    LET rows == SelectSeq(FirstDataRows(page), Qualifies)
    IN  FirstOccurrences([i \in 1..Len(rows) |-> RowLabel(rows[i])])

\* the labels of current in insertion order, then those only in prior
ClaimedOrder ==
    LET cur == InsertionOrder(html)
        pri == InsertionOrder(htmlAnterior)
    IN  cur \o SelectSeq(pri, LAMBDA l : \A i \in 1..Len(cur) : cur[i] # l)

Position(seq, x) == CHOOSE i \in 1..Len(seq) : seq[i] = x

\* C12: the rows are built in the order of the labels of current as the parser
\* inserted them, then the labels only in prior as inserted, and rows of equal
\* variacionS keep that order after the sort
C12_InsertionOrderTieBreak ==
    result # <<>>
        => /\ Keys(dataActual) = InsertionOrder(html)
           /\ Keys(dataAnterior) = InsertionOrder(htmlAnterior)
           /\ \A i, j \in 1..Len(result) :
                (i < j /\ result[i].variacionS = result[j].variacionS)
                    => Position(ClaimedOrder, result[i].concepto)
                         < Position(ClaimedOrder, result[j].concepto)

-----------------------------------------------------------------------------
(* Further properties of the request handler *)

\* what the claim says a call that was given outcome o ends with
Classified(o) ==
    IF o.kind = "error"
    THEN IF o.error.response # 0
         THEN [st |-> "rejected",
               e |-> [text |-> "Error al acceder a la URL: El servidor respondió con estado ${status}.",
                      status |-> o.error.response]]
         ELSE IF o.error.request
         THEN [st |-> "rejected",
               e |-> [text |-> "Error de red: No se pudo conectar a la URL proporcionada."]]
         ELSE [st |-> "rejected", e |-> o.error.message]
    ELSE IF \A i \in 1..Len(o.page) : o.page[i].class # "Data"
    THEN [st |-> "rejected", e |-> MsgNoTable]
    ELSE IF \A i \in 1..Len(FirstDataRows(o.page)) : ~Qualifies(FirstDataRows(o.page)[i])
    THEN [st |-> "rejected", e |-> MsgNoData]
    ELSE [st |-> "fulfilled", e |-> [text |-> ""]]

\* C13: a failed call ends with exactly one of: the status error with the
\* status code (a response outside 2xx), the connection error (no response), or
\* the original message unchanged (anything else, the two parse errors among
\* them); and each call fetches once
C13_FailureClassified ==
    \A p \in Pipelines :
        /\ pipe[p].st \in {"fulfilled", "rejected"}
             => /\ pipe[p].st = Classified(pipe[p].got).st
                /\ pipe[p].e = Classified(pipe[p].got).e
                /\ pipe[p].e \in {MsgNoTable, MsgNoData} <=> pipe[p].got.kind = "response"
                                                              /\ pipe[p].st = "rejected"
        /\ pipe[p].st # "idle"
             => Cardinality({i \in 1..Len(fetchLog) : fetchLog[i].pipeline = p}) = 1

C13_Witness ==
    /\ pipe["actual"].st = "rejected"
    /\ pipe["actual"].got.error.response = 503
    /\ pipe["actual"].e.status = 503
    /\ pipe["anterior"].st = "rejected"
    /\ pipe["anterior"].got.kind = "response"
    /\ pipe["anterior"].e = MsgNoData
    /\ Len(fetchLog) = 2

Settled(p) == pipe[p].st \in {"fulfilled", "rejected"}

\* C14: a request the handler took ends with exactly one response, of status
\* 400, 500 or 200: never two, and never none once validation has failed, a
\* pipeline has failed or both pipelines have settled
C14_ExactlyOneResponse ==
    /\ Len(responses) <= 1
    /\ \A i \in 1..Len(responses) : responses[i].status \in {400, 500, 200}
    /\ pc = "responded" <=> Len(responses) = 1
    /\ (pc # "idle" /\ \A p \in Pipelines : pipe[p].st = "idle") => Len(responses) = 1
    /\ (\E p \in Pipelines : pipe[p].st = "rejected") => Len(responses) = 1
    /\ (\A p \in Pipelines : Settled(p)) => Len(responses) = 1

C14_Witness ==
    /\ settleOrder = <<"actual", "anterior">>
    /\ \A p \in Pipelines : pipe[p].st = "rejected"
    /\ Len(responses) = 1
    /\ responses[1].status = 500

====
